---------------------------- MODULE Spec2Model ----------------------------
(***************************************************************************)
(* Animator (src/animator.js): one object that drives a list of callbacks  *)
(* from window.requestAnimationFrame, handing each the coefficient of      *)
(* completion min((Date.now() - start) / duration, 1) until it is 1.       *)
(*                                                                         *)
(* The object's four fields are the first four variables.  The host is     *)
(* the set of frame requests not yet dispatched and the clock Date.now().  *)
(* JavaScript runs one handler at a time, so every public method and every *)
(* dispatch of _animationFrame (callbacks included) is one action.         *)
(***************************************************************************)
EXTENDS Integers, Sequences, FiniteSets

VARIABLES
    _duration,                  \* this._duration
    _callbacks,                 \* this._callbacks: the callbacks, by behaviour
    _animationStartTime,        \* this._animationStartTime, Null or a timestamp
    _requestAnimationFrameID,   \* this._requestAnimationFrameID, Null or a handle
    pending,                    \* host: handles of frame requests not yet dispatched
    now,                        \* host: the value Date.now() returns
    frame,                      \* log of the frame just dispatched, NoFrame after any other step
    run,                        \* history of the latest startAnimation call
    starts                      \* history: startAnimation calls so far, counted up to StartsCap

vars == <<_duration, _callbacks, _animationStartTime, _requestAnimationFrameID,
          pending, now, frame, run, starts>>

---------------------------------------------------------------------------
(* Bounds of the model *)

MaxCallbacks == 2       \* longest callback list explored
MaxPending == 2         \* most frame requests pending at the host
MaxTicks == 3           \* the clock is observed at Epoch + k * TickStep, k <= MaxTicks

---------------------------------------------------------------------------
(* Values *)

\* null, as stored in _animationStartTime and _requestAnimationFrameID.
Null == -1

\* The duration the constructor sets.
DefaultDuration == 200

\* Date.now() when the page starts: milliseconds since 1970, far above any
\* duration used here.
Epoch == 1000

\* The clock is observed in steps of half the default duration.
TickStep == DefaultDuration \div 2

\* Arguments given to setDuration: negative, zero, short, and the default.
Durations == {-DefaultDuration, 0, TickStep, DefaultDuration}

\* What a registered callback does when invoked with the coefficient:
\*   plain    nothing to the animator
\*   adder    animator.addCallback(plain), while the list is below MaxCallbacks
\*   starter  animator.startAnimation()
\*   thrower  throws
Behaviours == {"plain", "adder", "starter", "thrower"}

\* JavaScript numbers that a quotient of two integers can be: n/d in lowest
\* terms with d > 0, or NaN, Infinity, -Infinity.  (-0 is identified with 0:
\* the code compares only with 1.)
Num(n, d) == [kind |-> "num", n |-> n, d |-> d]
NaN == [kind |-> "nan", n |-> 0, d |-> 1]
PosInfinity == [kind |-> "inf", n |-> 1, d |-> 1]
NegInfinity == [kind |-> "ninf", n |-> -1, d |-> 1]
One == Num(1, 1)
Zero == Num(0, 1)
NoCoefficient == [kind |-> "none", n |-> 0, d |-> 1]

Abs(x) == IF x < 0 THEN -x ELSE x

RECURSIVE GCD(_, _)
GCD(a, b) == IF b = 0 THEN a ELSE GCD(b, a % b)

\* x / y on integers, as JavaScript's / computes it.
Div(x, y) ==
    IF y = 0
    THEN IF x > 0 THEN PosInfinity ELSE IF x < 0 THEN NegInfinity ELSE NaN
    ELSE LET g == GCD(Abs(x), Abs(y))
             sgn == IF y < 0 THEN -1 ELSE 1
         IN  Num((sgn * x) \div g, Abs(y) \div g)

\* a < b on JavaScript numbers (false when either is NaN).
Less(a, b) ==
    CASE a.kind = "nan" \/ b.kind = "nan" -> FALSE
      [] a.kind = "ninf" -> b.kind # "ninf"
      [] a.kind = "inf" -> FALSE
      [] b.kind = "ninf" -> FALSE
      [] b.kind = "inf" -> TRUE
      [] OTHER -> a.n * b.d < b.n * a.d

\* Math.min(a, b): NaN if either is NaN, else the smaller.
MathMin(a, b) ==
    IF a.kind = "nan" \/ b.kind = "nan" THEN NaN
    ELSE IF Less(b, a) THEN b ELSE a

\* The element of a one-element set.  The({e(v) : v \in {x}}) is e with v
\* standing for the value of x, computed once: a local constant of the code.
The(S) == CHOOSE r \in S : TRUE

\* ToNumber of a field used in arithmetic: null converts to 0.
ToNumber(v) == IF v = Null THEN 0 ELSE v

---------------------------------------------------------------------------
(* The animator and its host as one value, so that the methods can be      *)
(* applied in sequence inside a frame.                                     *)

\* History of the run in progress: when startAnimation was last called (start),
\* how many callbacks were registered then (len), whether setDuration has left
\* the duration alone since (steady), the coefficient of the latest frame
\* dispatched since (last), and, until the first such frame, the coefficient
\* last delivered by the run that the call interrupted if it was above 0
\* (before).  NoRun once a frame begun after that call has delivered 1, and
\* before the first call.
NoRun == [active |-> FALSE, start |-> Null, len |-> 0, steady |-> TRUE,
          last |-> NoCoefficient, before |-> NoCoefficient]

\* The count of startAnimation calls stops here, at the largest number of
\* requests that can be pending: starts = StartsCap reads "StartsCap or more".
StartsCap == MaxPending

\* Log of one dispatch of _animationFrame: whether one took place (is), the
\* value of its local variable coefficient, the calls callback(c) it made in
\* order (idx: position in _callbacks), whether a callback threw, whether a
\* callback called startAnimation, the coefficient of the frame before it
\* in the same run (prev, NoCoefficient if there is none), whether
\* _animationStartTime was null when it began (idle), and run.before as it
\* was when it began (before).
NoFrame == [is |-> FALSE, coefficient |-> NoCoefficient, calls |-> <<>>,
            thrown |-> FALSE, started |-> FALSE, prev |-> NoCoefficient,
            idle |-> FALSE, before |-> NoCoefficient]

State ==
    [_duration |-> _duration,
     _callbacks |-> _callbacks,
     _animationStartTime |-> _animationStartTime,
     _requestAnimationFrameID |-> _requestAnimationFrameID,
     pending |-> pending,
     run |-> run,
     starts |-> starts]

\* window.requestAnimationFrame(cb): a handle that identifies the new request
\* among those pending (p is the set pending before the call).
requestAnimationFrame(p) ==
    CHOOSE h \in 1..(Cardinality(p) + 1) :
        h \notin p /\ \A g \in 1..(Cardinality(p) + 1) : g \notin p => h <= g

\* Variant of addCallback that ignores a callback already registered.
addCallbackOnce(s, callback) ==
    IF \E i \in 1..Len(s._callbacks) : s._callbacks[i] = callback
    THEN s
    ELSE [s EXCEPT !._callbacks = Append(@, callback)]

\* Animator.prototype.addCallback
addCallback(s, callback) ==
    [s EXCEPT !._callbacks = Append(@, callback)]

\* Animator.prototype.setDuration
setDuration(s, duration) ==
    [s EXCEPT !._duration = duration,
              !.run = IF @.active
                      THEN [@ EXCEPT !.steady = @ /\ duration = s._duration]
                      ELSE @]

\* Variant of startAnimation that keeps the start time of a run in progress.
startAnimationKeepsStart(s, t) ==
    LET h == requestAnimationFrame(s.pending)
    IN  [s EXCEPT !._animationStartTime = IF @ = Null THEN t ELSE @,
                  !._requestAnimationFrameID = h,
                  !.pending = @ \cup {h},
                  !.run = [active |-> TRUE, start |-> t, len |-> Len(s._callbacks),
                           steady |-> TRUE, last |-> NoCoefficient,
                           before |-> IF s._animationStartTime = Null THEN NoCoefficient
                                      ELSE IF Less(Zero, s.run.last) THEN s.run.last
                                      ELSE IF s.run.last # NoCoefficient THEN NoCoefficient
                                      ELSE s.run.before],
                  !.starts = IF @ < StartsCap THEN @ + 1 ELSE @]

\* Animator.prototype.startAnimation, called when Date.now() is t.
startAnimation(s, t) ==
    LET h == requestAnimationFrame(s.pending)
    IN  [s EXCEPT !._animationStartTime = t,
                  !._requestAnimationFrameID = h,
                  !.pending = @ \cup {h},
                  !.run = [active |-> TRUE, start |-> t, len |-> Len(s._callbacks),
                           steady |-> TRUE, last |-> NoCoefficient,
                           before |-> IF s._animationStartTime = Null THEN NoCoefficient
                                      ELSE IF Less(Zero, s.run.last) THEN s.run.last
                                      ELSE IF s.run.last # NoCoefficient THEN NoCoefficient
                                      ELSE s.run.before],
                  !.starts = IF @ < StartsCap THEN @ + 1 ELSE @]

\* Variant of _getAnimationCompletionCoefficient that divides by the magnitude
\* of the duration.
_getAnimationCompletionCoefficientAbsDuration(s, t) ==
    MathMin(Div(t - ToNumber(s._animationStartTime), Abs(s._duration)), One)

\* Variant of _getAnimationCompletionCoefficient that returns the quotient
\* without Math.min.
_getAnimationCompletionCoefficientUnclamped(s, t) ==
    Div(t - ToNumber(s._animationStartTime), s._duration)

\* Animator.prototype._getAnimationCompletionCoefficient at Date.now() = t.
_getAnimationCompletionCoefficient(s, t) ==
    MathMin(Div(t - ToNumber(s._animationStartTime), s._duration), One)

\* Variant of _afterAnimationFrame that requests the next frame even after
\* the last one.
_afterAnimationFrameAlwaysRequests(s, coefficient) ==
    LET h == requestAnimationFrame(s.pending)
    IN  IF coefficient = One
        THEN [s EXCEPT !._animationStartTime = Null,
                       !._requestAnimationFrameID = Null,
                       !.pending = @ \cup {h}]
        ELSE [s EXCEPT !._requestAnimationFrameID = h,
                       !.pending = @ \cup {h}]

\* Variant of _afterAnimationFrame that requests two frames where the source
\* requests one.
_afterAnimationFrameRequestsTwice(s, coefficient) ==
    IF coefficient = One
    THEN [s EXCEPT !._animationStartTime = Null,
                   !._requestAnimationFrameID = Null]
    ELSE LET g == requestAnimationFrame(s.pending)
             h == requestAnimationFrame(s.pending \cup {g})
         IN  [s EXCEPT !._requestAnimationFrameID = h,
                       !.pending = @ \cup {g, h}]

\* Variant of _afterAnimationFrame that leaves the request ID in place when
\* the run completes.
_afterAnimationFrameKeepsID(s, coefficient) ==
    IF coefficient = One
    THEN [s EXCEPT !._animationStartTime = Null]
    ELSE LET h == requestAnimationFrame(s.pending)
         IN  [s EXCEPT !._requestAnimationFrameID = h,
                       !.pending = @ \cup {h}]

\* Variant of _afterAnimationFrame that ends the run after every frame.
_afterAnimationFrameAlwaysClears(s, coefficient) ==
    [s EXCEPT !._animationStartTime = Null,
              !._requestAnimationFrameID = Null]

\* Variant of _afterAnimationFrame that never requests the next frame.
_afterAnimationFrameNoRequest(s, coefficient) ==
    IF coefficient = One
    THEN [s EXCEPT !._animationStartTime = Null,
                   !._requestAnimationFrameID = Null]
    ELSE s

\* Animator.prototype._afterAnimationFrame
_afterAnimationFrame(s, coefficient) ==
    IF coefficient = One
    THEN [s EXCEPT !._animationStartTime = Null,
                   !._requestAnimationFrameID = Null]
    ELSE LET h == requestAnimationFrame(s.pending)
         IN  [s EXCEPT !._requestAnimationFrameID = h,
                       !.pending = @ \cup {h}]

\* Variant of Invoke that passes each callback a coefficient computed afresh.
InvokeRecomputed(L, i, coefficient, t) ==
    LET b == L.s._callbacks[i]
        M == [L EXCEPT !.calls = Append(@,
                  [idx |-> i, c |-> _getAnimationCompletionCoefficient(L.s, t)])]
    IN  CASE b = "plain" -> M
          [] b = "adder" ->
               IF Len(M.s._callbacks) < MaxCallbacks
               THEN [M EXCEPT !.s = addCallback(@, "plain")]
               ELSE M
          [] b = "starter" ->
               [M EXCEPT !.s = startAnimation(@, t), !.started = TRUE]
          [] b = "thrower" -> [M EXCEPT !.thrown = TRUE]

\* callback(coefficient) for the callback at index i: the call is logged, then
\* the callback does what its behaviour says.  L is the frame in progress.
Invoke(L, i, coefficient, t) ==
    LET b == L.s._callbacks[i]
        M == [L EXCEPT !.calls = Append(@, [idx |-> i, c |-> coefficient])]
    IN  CASE b = "plain" -> M
          [] b = "adder" ->
               IF Len(M.s._callbacks) < MaxCallbacks
               THEN [M EXCEPT !.s = addCallback(@, "plain")]
               ELSE M
          [] b = "starter" ->
               [M EXCEPT !.s = startAnimation(@, t), !.started = TRUE]
          [] b = "thrower" -> [M EXCEPT !.thrown = TRUE]

\* Variant of forEach that runs to the end of the list as it grows.
RECURSIVE forEachLive(_, _, _, _, _)
forEachLive(L, i, n, coefficient, t) ==
    IF i > Len(L.s._callbacks) \/ L.thrown
    THEN L
    ELSE The({forEachLive(M, i + 1, n, coefficient, t) :
                  M \in {Invoke(L, i, coefficient, t)}})

\* Variant of forEach that goes on to the next callback after an exception.
RECURSIVE forEachCatching(_, _, _, _, _)
forEachCatching(L, i, n, coefficient, t) ==
    IF i > n
    THEN L
    ELSE The({forEachCatching(M, i + 1, n, coefficient, t) :
                  M \in {Invoke(L, i, coefficient, t)}})

\* Variant of forEach that visits the list from its end.
RECURSIVE forEachReversed(_, _, _, _, _)
forEachReversed(L, i, n, coefficient, t) ==
    IF i > n \/ L.thrown
    THEN L
    ELSE The({forEachReversed(M, i + 1, n, coefficient, t) :
                  M \in {Invoke(L, n - i + 1, coefficient, t)}})

\* this._callbacks.forEach(...): indices i..n in order, n being the length
\* when forEach was called (elements appended meanwhile are not visited); an
\* exception ends the loop.
RECURSIVE forEach(_, _, _, _, _)
forEach(L, i, n, coefficient, t) ==
    IF i > n \/ L.thrown
    THEN L
    ELSE The({forEach(M, i + 1, n, coefficient, t) :
                  M \in {Invoke(L, i, coefficient, t)}})

\* History kept beside the frame: a frame that began inside the run and
\* delivered 1 ends the run; any other frame of the run is remembered.
NoteFrame(L, coefficient) ==
    IF L.started \/ ~L.s.run.active THEN L
    ELSE IF coefficient = One THEN [L EXCEPT !.s.run = NoRun]
    ELSE [L EXCEPT !.s.run.last = coefficient, !.s.run.before = NoCoefficient]

\* Animator.prototype._animationFrame, dispatched when Date.now() is t.  Read
\* from the last line up: coefficient is computed, forEach runs the callbacks
\* from an empty log (L), and unless one threw _afterAnimationFrame runs (M).
_animationFrame(s, t) ==
    The({The({The({NoteFrame(M, coefficient) :
        M \in {IF L.thrown THEN L
               ELSE [L EXCEPT !.s = _afterAnimationFrame(@, coefficient)]}}) :
        L \in {forEach([s |-> s, coefficient |-> coefficient, calls |-> <<>>,
                        thrown |-> FALSE, started |-> FALSE, prev |-> s.run.last,
                        idle |-> s._animationStartTime = Null,
                        before |-> s.run.before],
                       1, Len(s._callbacks), coefficient, t)}}) :
        coefficient \in {_getAnimationCompletionCoefficient(s, t)}})

---------------------------------------------------------------------------
(* Actions *)

\* All variables but the clock and the frame log, from a State value.
Store(s) ==
    /\ _duration' = s._duration
    /\ _callbacks' = s._callbacks
    /\ _animationStartTime' = s._animationStartTime
    /\ _requestAnimationFrameID' = s._requestAnimationFrameID
    /\ pending' = s.pending
    /\ run' = s.run
    /\ starts' = s.starts

\* new Animator()
Init ==
    /\ _duration = DefaultDuration
    /\ _callbacks = <<>>
    /\ _animationStartTime = Null
    /\ _requestAnimationFrameID = Null
    /\ pending = {}
    /\ now = Epoch
    /\ frame = NoFrame
    /\ run = NoRun
    /\ starts = 0

\* animator.addCallback(callback) from application code
AddCallback(b) ==
    /\ Len(_callbacks) < MaxCallbacks
    /\ Store(addCallback(State, b))
    /\ frame' = NoFrame
    /\ UNCHANGED now

\* animator.setDuration(duration) from application code
SetDuration(d) ==
    /\ Store(setDuration(State, d))
    /\ frame' = NoFrame
    /\ UNCHANGED now

\* animator.startAnimation() from application code
StartAnimation ==
    /\ Cardinality(pending) < MaxPending
    /\ Store(startAnimation(State, now))
    /\ frame' = NoFrame
    /\ UNCHANGED now

\* The host dispatches the pending request h: it calls _animationFrame once.
AnimationFrame(h) ==
    /\ h \in pending
    /\ \E L \in {_animationFrame([State EXCEPT !.pending = @ \ {h}], now)} :
           /\ Cardinality(L.s.pending) <= MaxPending
           /\ Store(L.s)
           /\ frame' = [is |-> TRUE, coefficient |-> L.coefficient,
                        calls |-> L.calls, thrown |-> L.thrown,
                        started |-> L.started, prev |-> L.prev,
                        idle |-> L.idle, before |-> L.before]
    /\ UNCHANGED now

\* Time passes between two handlers.
Tick ==
    /\ now + TickStep <= Epoch + MaxTicks * TickStep
    /\ now' = now + TickStep
    /\ frame' = NoFrame
    /\ UNCHANGED <<_duration, _callbacks, _animationStartTime,
                   _requestAnimationFrameID, pending, run, starts>>

Next ==
    \/ \E b \in Behaviours : AddCallback(b)
    \/ \E d \in Durations : SetDuration(d)
    \/ StartAnimation
    \/ \E h \in pending : AnimationFrame(h)
    \/ Tick

Spec == Init /\ [][Next]_vars

---------------------------------------------------------------------------
(* A host that keeps its promises, for termination: callbacks neither throw *)
(* nor restart, startAnimation is called only when nothing is in flight,    *)
(* durations are positive, and a run is only started or stretched while the *)
(* modelled clock can still reach its end.                                  *)

MaxNow == Epoch + MaxTicks * TickStep

LiveStartAnimation ==
    /\ _animationStartTime = Null
    /\ pending = {}
    /\ _duration > 0
    /\ now + _duration <= MaxNow
    /\ StartAnimation

LiveSetDuration(d) ==
    /\ d > 0
    /\ _animationStartTime # Null => _animationStartTime + d <= MaxNow
    /\ SetDuration(d)

Dispatch == \E h \in pending : AnimationFrame(h)

LiveNext ==
    \/ \E b \in {"plain", "adder"} : AddCallback(b)
    \/ \E d \in Durations : LiveSetDuration(d)
    \/ LiveStartAnimation
    \/ Dispatch
    \/ Tick

LiveSpec == Init /\ [][LiveNext]_vars /\ WF_vars(Tick) /\ WF_vars(Dispatch)

\* The animator used with positive durations and callbacks that do not throw:
\* startAnimation at any time, also from a callback and while a run is in
\* progress, and every pending request dispatched in any order.  A duration
\* longer than the clock's value is passed to setDuration only before the
\* first startAnimation call.
LongDuration == 2 * Epoch
PositiveDurations == {TickStep, DefaultDuration, LongDuration}

PositiveSetDuration(d) ==
    /\ starts = 0 \/ d <= now
    /\ SetDuration(d)

PositiveNext ==
    \/ \E b \in Behaviours \ {"thrower"} : AddCallback(b)
    \/ \E d \in PositiveDurations : PositiveSetDuration(d)
    \/ StartAnimation
    \/ Dispatch
    \/ Tick

PositiveSpec == Init /\ [][PositiveNext]_vars

---------------------------------------------------------------------------
(* Properties *)

\* The step is a dispatch of _animationFrame.
FrameStep == frame'.is

\* The positions in _callbacks that a frame log shows invoked.
Invoked(f) == {f.calls[k].idx : k \in 1..Len(f.calls)}

\* Every registered callback leaves the animator alone or only adds a callback.
Tame == \A i \in 1..Len(_callbacks) : _callbacks[i] \in {"plain", "adder"}

\* Elapsed time of the run in progress, measured from its startAnimation call.
RunElapsed == now - run.start

Running == _animationStartTime # Null

\* C1: with a positive duration and callbacks that neither throw nor call
\* startAnimation, _animationStartTime is non-null exactly when a frame
\* request is pending.
C1_StartTimeIffPending ==
    (Tame /\ _duration > 0) => (Running <=> pending # {})

C3_CompletionExact ==
    [][/\ (/\ FrameStep /\ run.active /\ Running /\ _duration > 0
            /\ Cardinality(pending) = 1
            /\ now - _animationStartTime >= _duration)
           => /\ frame'.coefficient = One
              /\ \A k \in 1..Len(frame'.calls) : frame'.calls[k].c = One
              /\ ~frame'.started => pending' = {}
       /\ (pending = {} /\ pending' # {})
           => /\ ~FrameStep
              /\ _animationStartTime' = now
              /\ _requestAnimationFrameID' \in pending']_vars

\* C3 witness: a run that had delivered 1/2 has just been completed by a frame
\* that passed 1 to a callback, and nothing is pending.
C3_Witness ==
    /\ frame.is /\ ~frame.started /\ ~frame.thrown
    /\ frame.prev = Num(1, 2)
    /\ frame.coefficient = One
    /\ Len(frame.calls) > 0
    /\ pending = {}
    /\ ~Running

\* C4: with a positive duration that setDuration has left alone since, every
\* frame dispatched in the run begun by the latest startAnimation call (before
\* a frame begun after that call has delivered 1) delivers
\* min((now - that call's timestamp) / duration, 1).
C4_FreshRun ==
    [][(FrameStep /\ run.active /\ run.steady /\ _duration > 0) =>
        frame'.coefficient = MathMin(Div(RunElapsed, _duration), One)]_vars

\* The first position in cbs holding a callback that throws, Len(cbs) + 1 if
\* there is none.
RECURSIVE FirstThrower(_, _)
FirstThrower(cbs, i) ==
    IF i > Len(cbs) \/ cbs[i] = "thrower" THEN i ELSE FirstThrower(cbs, i + 1)

\* The callbacks registered since the startAnimation call of the run in
\* progress and before the step.
Late == (run.len + 1)..Len(_callbacks)

\* C5 as stated: a frame of a run invokes no callback registered during that
\* frame, and invokes every callback registered earlier in the run.
C5_LateRegistration ==
    [][(FrameStep /\ run.active) =>
        /\ \A j \in (Len(_callbacks) + 1)..Len(_callbacks') : j \notin Invoked(frame')
        /\ \A j \in Late : j \in Invoked(frame')]_vars

\* C5 amended: a frame of a run invokes no callback registered during that
\* frame, and invokes every callback registered earlier in the run unless a
\* callback registered before it throws in that frame.
C5_LateRegistrationUnlessThrow ==
    [][(FrameStep /\ run.active) =>
        /\ \A j \in (Len(_callbacks) + 1)..Len(_callbacks') : j \notin Invoked(frame')
        /\ \A j \in Late :
              j \in Invoked(frame') <=> j <= FirstThrower(_callbacks, 1)]_vars

\* C5 witness: a frame of a run has just invoked a callback registered after
\* the run's startAnimation call, and a callback registered during this very
\* frame was not invoked.
C5_Witness ==
    /\ frame.is /\ ~frame.started /\ run.active
    /\ \E j \in Invoked(frame) : j > run.len
    /\ \E j \in 1..Len(_callbacks) : j > run.len /\ j \notin Invoked(frame)

\* C6 as stated: a frame invokes each callback registered at its start
\* exactly once, all with the frame's one coefficient.
C6_FanOut ==
    [][FrameStep =>
        /\ Len(frame'.calls) = Len(_callbacks)
        /\ \A k \in 1..Len(frame'.calls) :
              /\ frame'.calls[k].idx = k
              /\ frame'.calls[k].c = frame'.coefficient]_vars

\* C6 amended: a frame invokes, exactly once each and all with the frame's
\* one coefficient, the callbacks registered at its start up to and including
\* the first one that throws (all of them if none throws).
C6_FanOutUnlessThrow ==
    [][FrameStep =>
        /\ Len(frame'.calls) =
              IF FirstThrower(_callbacks, 1) <= Len(_callbacks)
              THEN FirstThrower(_callbacks, 1) ELSE Len(_callbacks)
        /\ frame'.thrown <=> FirstThrower(_callbacks, 1) <= Len(_callbacks)
        /\ \A k \in 1..Len(frame'.calls) :
              /\ frame'.calls[k].idx = k
              /\ frame'.calls[k].c = frame'.coefficient]_vars

\* C6 witness: a frame has passed one coefficient strictly between 0 and 1 to
\* two callbacks, the first of which restarted the animation.
C6_Witness ==
    /\ frame.is /\ ~frame.thrown /\ frame.started
    /\ Len(frame.calls) = 2
    /\ frame.calls[1].c = Num(1, 2)
    /\ frame.calls[2].c = Num(1, 2)
    /\ _callbacks[1] = "starter"

\* C7: the calls a frame makes are in registration order: each call is to a
\* later position of _callbacks than the call before it, starting at the
\* first registered callback.
C7_OrderPreserved ==
    [][FrameStep =>
        /\ Len(_callbacks) > 0 => (Len(frame'.calls) > 0 /\ frame'.calls[1].idx = 1)
        /\ \A k \in 1..(Len(frame'.calls) - 1) :
              frame'.calls[k].idx < frame'.calls[k + 1].idx]_vars

\* C7 witness: a frame has called the first registered callback and then the
\* second.
C7_Witness ==
    /\ frame.is
    /\ Len(frame.calls) >= 2
    /\ frame.calls[1].idx = 1 /\ frame.calls[2].idx = 2

\* C8: at most one frame request is pending at the host.
C8_SingleChain ==
    Cardinality(pending) <= 1

\* C9: a run in progress is eventually completed: a frame delivers 1 and
\* _animationStartTime is null again.
C9_RunCompletes ==
    (run.active /\ Running) ~>
        (frame.is /\ frame.coefficient = One /\ ~Running /\ pending = {})

\* C9 witness: a run that had delivered a coefficient below 1 has just been
\* completed by a frame delivering 1, and the animator is idle.
C9_Witness ==
    /\ frame.is
    /\ frame.prev # NoCoefficient /\ Less(frame.prev, One)
    /\ frame.coefficient = One
    /\ ~Running /\ pending = {} /\ ~run.active

\* The coefficient a frame would deliver if it were dispatched now.
NextCoefficient == _getAnimationCompletionCoefficient(State, now)

\* C10: a setDuration call that replaces one positive duration by another
\* while a run is in progress leaves the coefficient that the run's frames
\* deliver as it was.
C10_SetDurationKeepsRun ==
    [][(/\ Running /\ run.active
        /\ _duration' # _duration /\ _duration > 0 /\ _duration' > 0) =>
        NextCoefficient' = NextCoefficient]_vars


-----------------------------------------------------------------------------
\* A step that takes the animator from Idle to Running is a startAnimation
\* call, made directly or by a callback during a frame.
BecomesRunningByStart ==
    (~Running /\ Running') =>
        /\ _animationStartTime' = now'
        /\ run'.active /\ run'.start = now'
        /\ FrameStep => frame'.started

\* A step that takes the animator from Running to Idle is a frame whose
\* coefficient is exactly 1.
BecomesIdleByCompletion ==
    (Running /\ ~Running') => (FrameStep /\ frame'.coefficient = One)

\* The frame leaves _animationStartTime alone and schedules exactly one frame
\* in place of the one it consumed.
SchedulesOneNext ==
    /\ _animationStartTime' = _animationStartTime
    /\ Cardinality(pending') = Cardinality(pending)
    /\ _requestAnimationFrameID' \in pending'

\* C11 as stated: the animator is Idle after construction, becomes Running only
\* by startAnimation, returns to Idle only in a frame whose coefficient is
\* exactly 1, and every frame whose coefficient is not 1 leaves
\* _animationStartTime unchanged and schedules exactly one next frame.
C11_TwoStates ==
    /\ ~Running
    /\ [][/\ BecomesRunningByStart
          /\ BecomesIdleByCompletion
          /\ (FrameStep /\ frame'.coefficient # One) => SchedulesOneNext]_vars

\* C11 amended: the same, where the frames that leave _animationStartTime
\* unchanged and schedule exactly one next frame are those whose coefficient is
\* not 1 and in which no callback throws or calls startAnimation.
C11_TwoStatesUnlessThrowOrStart ==
    /\ ~Running
    /\ [][/\ BecomesRunningByStart
          /\ BecomesIdleByCompletion
          /\ (/\ FrameStep /\ frame'.coefficient # One
              /\ ~frame'.thrown /\ ~frame'.started) => SchedulesOneNext]_vars

\* A running animator has just had a frame below 1 with its callbacks invoked,
\* and exactly one frame is pending, the one it scheduled.
C11_Witness ==
    /\ frame.is /\ frame.coefficient = Num(1, 2) /\ ~frame.idle
    /\ ~frame.thrown /\ ~frame.started /\ Len(frame.calls) > 0
    /\ Running /\ pending = {_requestAnimationFrameID}


-----------------------------------------------------------------------------
-----------------------------------------------------------------------------
\* C13: in a frame in which a callback throws, the callbacks invoked are those
\* up to and including the first one that throws, none after it; and, unless
\* a callback invoked before it called startAnimation, the frame requests no
\* frame (the consumed request is gone and nothing replaces it) and leaves
\* _animationStartTime and _requestAnimationFrameID as they were, so a running
\* animator stays Running.
C13_ThrowAbortsFrame ==
    [][(FrameStep /\ frame'.thrown) =>
        /\ FirstThrower(_callbacks, 1) <= Len(_callbacks)
        /\ Invoked(frame') = 1..FirstThrower(_callbacks, 1)
        /\ ~frame'.started =>
              /\ _animationStartTime' = _animationStartTime
              /\ _requestAnimationFrameID' = _requestAnimationFrameID
              /\ pending' \subseteq pending
              /\ Cardinality(pending') = Cardinality(pending) - 1
              /\ Running => Running']_vars

\* The first of two callbacks has thrown in a frame of a running animator: the
\* second was not invoked, the animator is still Running with its stored
\* request ID, and no request is pending.
C13_Witness ==
    /\ frame.is /\ frame.thrown /\ ~frame.started /\ ~frame.idle
    /\ Len(_callbacks) = 2 /\ Invoked(frame) = {1}
    /\ Running /\ _requestAnimationFrameID # Null /\ pending = {}


-----------------------------------------------------------------------------
\* The frame's coefficient is a number that is not above 0, so not 1, and is
\* what every callback invoked received.
DeliversNonPositive ==
    /\ frame'.coefficient # One
    /\ frame'.coefficient = Zero \/ Less(frame'.coefficient, Zero)
    /\ \A k \in 1..Len(frame'.calls) : frame'.calls[k].c = frame'.coefficient

\* The frame has requested a frame: at least as many requests are pending as
\* before it, the stored one among them.
SchedulesAnother ==
    /\ Cardinality(pending') >= Cardinality(pending)
    /\ _requestAnimationFrameID' \in pending'

\* C14 as stated: with a negative duration (the clock of the model never goes
\* back) every frame of a run delivers a coefficient that is at most 0 and
\* not 1, schedules another frame and leaves the animator Running.
C14_NegativeDuration ==
    [][(FrameStep /\ Running /\ _duration < 0) =>
        /\ DeliversNonPositive
        /\ SchedulesAnother
        /\ Running']_vars

\* C14 amended: the same, where the frames that schedule another frame are
\* those in which no callback throws.
C14_NegativeDurationUnlessThrow ==
    [][(FrameStep /\ Running /\ _duration < 0) =>
        /\ DeliversNonPositive
        /\ ~frame'.thrown => SchedulesAnother
        /\ Running']_vars

\* With a negative duration a frame of a run has delivered a coefficient
\* below 0 to a callback after time has passed, and the animator is Running
\* with the next frame pending.
C14_Witness ==
    /\ frame.is /\ ~frame.idle /\ ~frame.thrown /\ _duration < 0
    /\ Less(frame.coefficient, Zero) /\ Len(frame.calls) > 0
    /\ now > _animationStartTime
    /\ Running /\ _requestAnimationFrameID \in pending


-----------------------------------------------------------------------------
\* C15: in every state and for every callback, registered already or not,
\* addCallback yields the callback sequence with the callback appended: one
\* longer, the existing entries in their places; it leaves _duration,
\* _animationStartTime, _requestAnimationFrameID and the pending requests
\* alone; and a call from application code makes exactly that step.
C15_AddCallbackAppends ==
    \A b \in Behaviours :
        LET r == addCallback(State, b)
        IN  /\ r._callbacks = Append(_callbacks, b)
            /\ Len(r._callbacks) = Len(_callbacks) + 1
            /\ \A i \in 1..Len(_callbacks) : r._callbacks[i] = _callbacks[i]
            /\ r._callbacks[Len(_callbacks) + 1] = b
            /\ r._duration = _duration
            /\ r._animationStartTime = _animationStartTime
            /\ r._requestAnimationFrameID = _requestAnimationFrameID
            /\ r.pending = pending
            /\ Len(_callbacks) < MaxCallbacks =>
                  ENABLED (/\ AddCallback(b)
                           /\ _callbacks' = Append(_callbacks, b)
                           /\ UNCHANGED <<_duration, _animationStartTime,
                                          _requestAnimationFrameID, pending>>)

\* The same callback has been registered twice while a run is in progress:
\* it is in the sequence twice, and the run's request is still pending.
C15_Witness ==
    /\ Len(_callbacks) = 2 /\ _callbacks[1] = _callbacks[2]
    /\ run.active /\ run.len = 1
    /\ ~frame.is /\ Running /\ pending = {_requestAnimationFrameID}


-----------------------------------------------------------------------------
\* C16: no more frame requests are pending than startAnimation has been
\* called (directly or by a callback) so far; before the first call none is
\* pending, the animator is Idle, and no frame has been dispatched, so no
\* callback has been invoked.  (starts = StartsCap stands for StartsCap calls
\* or more, and no more than StartsCap requests are ever pending.)
C16_PendingWithinStarts ==
    /\ Cardinality(pending) <= starts
    /\ starts = 0 => (pending = {} /\ ~Running /\ frame = NoFrame)
    /\ frame.is => (starts > 0 /\ (frame.started => starts > 1))

\* After one startAnimation call a frame has invoked a callback and has
\* scheduled its one successor, the only request pending.
C16_Witness ==
    /\ starts = 1 /\ starts < StartsCap
    /\ frame.is /\ Len(frame.calls) > 0 /\ frame.coefficient # One
    /\ Cardinality(pending) = 1


-----------------------------------------------------------------------------
\* C17: with positive durations and no callback that throws, in every state
\* between two operations _animationStartTime and _requestAnimationFrameID
\* are both null or both non-null, whatever the order of startAnimation
\* calls and frame dispatches.
C17_FieldsPaired ==
    (_animationStartTime = Null) <=> (_requestAnimationFrameID = Null)

\* A request left over from an older chain has been dispatched after the run
\* was completed: its frame found the animator Idle, delivered 1 to a callback
\* and left both fields null.
C17_Witness ==
    /\ frame.is /\ frame.idle /\ ~frame.started
    /\ frame.coefficient = One /\ Len(frame.calls) > 0
    /\ _animationStartTime = Null /\ _requestAnimationFrameID = Null

=============================================================================
